---- MODULE Spec2Model ----
(***************************************************************************)
(* Model of app.py, the Streamlit forecast page.  One script run (a        *)
(* "render") is one step: the API-key gate, the sidebar widgets, the       *)
(* location resolution, the reverse geocoding, the weather fetch and the   *)
(* rendering of the current-weather block.  The three st.cache_data        *)
(* memoizations, the URL query parameters and the widget values live       *)
(* across renders.                                                         *)
(***************************************************************************)
EXTENDS Integers, Sequences, FiniteSets, TLC

\* ------------------------------------------------------------------ bounds
\* Seconds that pass in one Tick step.
TickStep == 300

\* ttl of the three @st.cache_data decorators.
CacheTTL == 300

\* ------------------------------------------------------------ Python values
PyNone == [py |-> "None"]
JNum(n) == [py |-> "num", v |-> n]
JStr(s) == [py |-> "str", s |-> s]
JNull == PyNone

\* Result of a call that may raise.
Ok(v) == [raised |-> FALSE, val |-> v]
Raised == [raised |-> TRUE, val |-> PyNone]

\* Strings that appear as lat / lon text (URL, JS number, Python str(float)).
\* float("1") = float("1.0") = float(" 1 ") = 1.0; float("abc") raises.
ParseTable == [s \in {"1", "1.0", "2", "2.0", "11", "11.0", "12", "12.0"} |->
                 CASE s \in {"1", "1.0"} -> 1
                   [] s \in {"2", "2.0"} -> 2
                   [] s \in {"11", "11.0"} -> 11
                   [] s \in {"12", "12.0"} -> 12]

\* float(x) of Python, app.py lines 81-82 and 162-166.
PyFloat(x) ==
  CASE x.py = "num" -> Ok(x.v)
    [] x.py = "str" -> IF x.s \in DOMAIN ParseTable THEN Ok(ParseTable[x.s]) ELSE Raised
    [] OTHER -> Raised

\* str(x) of a Python float, as st.experimental_set_query_params stores it.
PyStr(n) ==
  CASE n = 1 -> "1.0" [] n = 2 -> "2.0" [] n = 11 -> "11.0" [] n = 12 -> "12.0"

\* JavaScript's number-to-string in "?lat=" + lat (line 114).
JsStr(n) ==
  CASE n = 1 -> "1" [] n = 2 -> "2" [] n = 11 -> "11" [] n = 12 -> "12"

\* city_query.strip()
Strip(s) == CASE s = " Jakarta " -> "Jakarta" [] s = "  " -> "" [] OTHER -> s

NoCoord == <<>>

\* A key a dict does not hold / a query parameter the URL does not hold.
JAbsent == [py |-> "absent"]
Absent == "<absent>"
NoLabel == "<None>"

\* d.get(k): None when the key is missing.
DictGet(d, k) == IF d[k] = JAbsent THEN PyNone ELSE d[k]
HasKey(d, k) == d[k] # JAbsent

\* ------------------------------------------------------ external answers
NotJson == [py |-> "notjson"]
NoAnswer == [net |-> "nocall", status |-> 0, body |-> NotJson]
Timeout == [net |-> "timeout", status |-> 0, body |-> NotJson]
Http(st, b) == [net |-> "ok", status |-> st, body |-> b]

IpDict(la, lo, ala, alo, c) ==
  [py |-> "dict", latitude |-> la, longitude |-> lo, lat |-> ala, lon |-> alo, city |-> c]
IpFull == IpDict(JNum(2), JNum(12), JAbsent, JAbsent, JStr("Jakarta"))
IpAlias == IpDict(JAbsent, JAbsent, JNum(2), JNum(12), JStr("Jakarta"))
IpNoKeys == IpDict(JAbsent, JAbsent, JAbsent, JAbsent, JStr("Jakarta"))
IpNull == IpDict(JNull, JNull, JAbsent, JAbsent, JAbsent)
IpText == IpDict(JStr("abc"), JStr("12"), JAbsent, JAbsent, JStr("Jakarta"))

\* What ipapi.co may answer to GET /json/.
IpAnswers ==
  {Timeout, Http(429, IpNoKeys), Http(200, NotJson), Http(200, IpFull), Http(200, IpAlias),
   Http(200, IpNoKeys), Http(200, IpNull), Http(200, IpText)}

GeoMatch == [py |-> "dict", name |-> "Jakarta", country |-> "ID", lat |-> 2, lon |-> 12]
NoMatches == [py |-> "list0"]
\* What the geocoding endpoint may answer: a list with zero or one match.
GeoAnswers == {Timeout, Http(401, NoMatches), Http(200, NotJson), Http(200, NoMatches),
               Http(200, GeoMatch)}

RevAnswers == {Timeout, Http(200, NoMatches), Http(200, GeoMatch)}

Payload(t, f) == [py |-> "dict", temp |-> t, feels_like |-> f]
WxFull == Payload(JNum(20), JNum(19))
WxNoFeels == Payload(JNum(20), JAbsent)
\* What the One Call endpoint may answer.
WxAnswers == {Timeout, Http(401, NotJson), Http(200, NotJson), Http(200, WxFull),
              Http(200, WxNoFeels)}

Is2xx(st) == st >= 200 /\ st < 300

\* -------------------------------------------------------- the functions
\* if not OPENWEATHER_KEY (lines 24-25): None and "" are falsy.
KeyMissingNoneOnly(k) == k = Absent
KeyMissing(k) == k = Absent \/ k = ""

\* ip_geolocation, lines 33-41: the dict on r.ok, None otherwise.
ip_geolocation(ans) ==
  IF ans.net = "ok" /\ Is2xx(ans.status) /\ ans.body # NotJson THEN ans.body ELSE PyNone

\* geocode_city, lines 44-56: the first match, None on any failure or on [].
geocode_city(ans) ==
  IF ans.net = "ok" /\ Is2xx(ans.status) /\ ans.body # NotJson /\ ans.body # NoMatches
  THEN Ok(ans.body) ELSE Ok(PyNone)

\* fetch_weather, lines 59-74: the payload, None on any exception.
fetch_weatherNoExcept(ans) ==
  IF ans.net = "ok" /\ Is2xx(ans.status) /\ ans.body # NotJson THEN Ok(ans.body) ELSE Raised
fetch_weather(ans) ==
  IF ans.net = "ok" /\ Is2xx(ans.status) /\ ans.body # NotJson THEN Ok(ans.body) ELSE Ok(PyNone)

\* coords_from_query, lines 76-86.
coords_from_query(q) ==
  IF q.lat # Absent /\ q.lon # Absent
  THEN LET la == PyFloat(JStr(q.lat))
           lo == PyFloat(JStr(q.lon))
       IN IF la.raised \/ lo.raised THEN NoCoord ELSE <<la.val, lo.val>>
  ELSE NoCoord

EmptyQP == [lat |-> Absent, lon |-> Absent, source |-> Absent, city |-> Absent]
\* clear_location_query, lines 88-89.
clear_location_query == EmptyQP

\* f"{x}" of a value read with .get(): str(None) is "None".
FStr(x) == IF x = PyNone THEN "None" ELSE IF x.v = 20 THEN "20" ELSE "19"

\* ------------------------------------------------------------- the caches
NoEntry == [has |-> FALSE, val |-> PyNone, age |-> 0]
Entry(v) == [has |-> TRUE, val |-> v, age |-> 0]
\* st.cache_data(ttl=300): an entry answers until it is 300 s old.
Fresh(e) == e.has /\ e.age < CacheTTL
Aged(e) == IF e.has /\ e.age + TickStep < CacheTTL
           THEN [e EXCEPT !.age = e.age + TickStep] ELSE NoEntry

\* ------------------------------------------------------------------ state
VARIABLES
  key,       \* st.secrets.get("OPENWEATHER_API_KEY"): Absent, "" or a key
  qp,        \* the URL query parameters
  qpOrigin,  \* history: the strategy that produced the coordinates held in qp
  method,    \* loc_method, the sidebar radio
  units,     \* the sidebar selectbox
  rerun,     \* a script run is pending (st.experimental_rerun, page load)
  ipCache,   \* st.cache_data of ip_geolocation
  geoCache,  \* st.cache_data of geocode_city, by city
  wxCache,   \* st.cache_data of fetch_weather, by (lat, lon, units)
  r          \* what the last script run did and showed

vars == <<key, qp, qpOrigin, method, units, rerun, ipCache, geoCache, wxCache, r>>

Methods == {"Browser GPS (best)", "IP-based (fallback)", "Search city"}
Units == {"metric", "imperial"}
Keys == {Absent, "", "k3y"}
CityTexts == {"", "  ", " Jakarta "}
Cities == {"Jakarta"}
\* Positions the browser's geolocation API may report.
GpsFixes == {<<1, 11>>}
WxKeys == {<<1, 11>>, <<2, 12>>} \X Units

\* URLs the page may first be opened with.
StartQPs ==
  {EmptyQP,
   [EmptyQP EXCEPT !.lat = "1", !.lon = "11"],
   [EmptyQP EXCEPT !.lat = "1.0", !.lon = "11"],
   [EmptyQP EXCEPT !.lat = "abc", !.lon = "11"],
   [EmptyQP EXCEPT !.lat = "1"]}

\* The record of a script run, before anything has happened in it.
Blank ==
  [out |-> "none", coord |-> NoCoord, source |-> NoLabel, origin |-> "none",
   name |-> NoLabel, btn |-> "none", qp0 |-> EmptyQP, note |-> "", gpsMsg |-> "",
   ipAns |-> NoAnswer, ipUsed |-> FALSE, ipData |-> PyNone,
   geoAns |-> NoAnswer, geoUsed |-> FALSE, ge |-> PyNone,
   revUsed |-> FALSE,
   wxAns |-> NoAnswer, wxUsed |-> FALSE, weather |-> PyNone,
   tempText |-> "", feelsText |-> ""]

Init ==
  /\ key \in Keys
  /\ qp \in StartQPs
  /\ qpOrigin = (IF coords_from_query(qp) = NoCoord THEN "none" ELSE "url")
  /\ method = "Browser GPS (best)"
  /\ units = "metric"
  /\ rerun = TRUE
  /\ ipCache = NoEntry
  /\ geoCache = [c \in Cities |-> NoEntry]
  /\ wxCache = [k \in WxKeys |-> NoEntry]
  /\ r = Blank

\* ------------------------------------------------- location resolution
Loc(exit, coord, source, origin, name) ==
  [exit |-> exit, coord |-> coord, source |-> source, origin |-> origin, name |-> name,
   note |-> ""]

\* Lines 148-157.
gps_branchDefaultCity(lat_lon, qo) ==
  IF lat_lon # NoCoord
  THEN Loc("go", lat_lon, "GPS (browser)", qo, NoLabel)
  ELSE Loc("go", <<2, 12>>, "Default city", "default", "Polewali,ID")
gps_branch(lat_lon, qo) ==
  IF lat_lon # NoCoord
  THEN Loc("go", lat_lon, "GPS (browser)", qo, NoLabel)
  ELSE Loc("go", NoCoord, NoLabel, "none", NoLabel)

\* ip_data.get("city") or ..., lines 170-172.
ip_name(ip_data) ==
  IF ip_data # PyNone /\ HasKey(ip_data, "city") THEN ip_data.city.s ELSE NoLabel

ip_coords(la, lo, ip_data) ==
  LET fa == PyFloat(la)
      fo == PyFloat(lo)
  IN IF fa.raised \/ fo.raised
     THEN Loc("crash", NoCoord, NoLabel, "none", NoLabel)
     ELSE Loc("go", <<fa.val, fo.val>>, "IP-based", "ip", ip_name(ip_data))

\* Lines 159-173.
ip_branch(ip_data) ==
  IF ip_data # PyNone /\ HasKey(ip_data, "latitude") /\ HasKey(ip_data, "longitude")
  THEN ip_coords(ip_data.latitude, ip_data.longitude, ip_data)
  ELSE IF ip_data # PyNone /\ HasKey(ip_data, "lat") /\ HasKey(ip_data, "lon")
  THEN ip_coords(ip_data.lat, ip_data.lon, ip_data)
  ELSE Loc("go", NoCoord, "IP-based", "none", ip_name(ip_data))

\* Lines 175-199.  ge is geocode_city's result when it was called.
city_branch(btn, text, ge, lat_lon, qo) ==
  IF btn = "find"
  THEN IF Strip(text) # ""
       THEN IF ge.raised THEN Loc("crash", NoCoord, NoLabel, "none", NoLabel)
            ELSE IF ge.val # PyNone
            THEN Loc("rerun", <<ge.val.lat, ge.val.lon>>, NoLabel, "city", ge.val.name)
            ELSE [Loc("go", NoCoord, NoLabel, "none", NoLabel)
                    EXCEPT !.note = "City not found via OpenWeather geocoding."]
       ELSE [Loc("go", NoCoord, NoLabel, "none", NoLabel)
               EXCEPT !.note = "Enter a city name first."]
  ELSE IF lat_lon # NoCoord
       THEN Loc("go", lat_lon, "From query", qo, NoLabel)
       ELSE Loc("go", NoCoord, NoLabel, "none", NoLabel)

\* Lines 201-206.
query_fallbackSkipped(loc, q, qo) == loc
query_fallback(loc, q, qo) ==
  IF loc.exit = "go" /\ loc.coord = NoCoord /\ coords_from_query(q) # NoCoord
  THEN [loc EXCEPT !.coord = coords_from_query(q), !.source = "Query param", !.origin = qo]
  ELSE loc

\* Lines 209-224: the reverse lookup only ever changes location_name.
reverse_name(ans, name) ==
  IF ans.net = "ok" /\ Is2xx(ans.status) /\ ans.body = GeoMatch
  THEN "Jakarta, ID" ELSE name

\* --------------------------------------------------------- one script run
\* The end of a script run: what it left in the URL, the caches and on screen.
Finish(rec, q, qo, again, ipC, geoC, wxC) ==
  /\ r' = rec
  /\ qp' = q
  /\ qpOrigin' = qo
  /\ rerun' = again
  /\ ipCache' = ipC
  /\ geoCache' = geoC
  /\ wxCache' = wxC

\* st.experimental_set_query_params(lat=lat, lon=lon, source=..., [city=...])
set_query_params(coord, source, city) ==
  [lat |-> PyStr(coord[1]), lon |-> PyStr(coord[2]), source |-> source, city |-> city]

\* Lines 233-263: fetch (memoized), the failure stop, the header with its
\* "use as default" button, and the current-weather line.
WeatherPart(E, rec, loc, u, btn, ipC, geoC) ==
  LET k == <<loc.coord, u>>
      hit == Fresh(wxCache[k])
  IN \E wxAns \in (IF hit THEN {NoAnswer} ELSE E.wx) :
       LET res == IF hit THEN Ok(wxCache[k].val) ELSE fetch_weather(wxAns)
           wxC == IF hit \/ res.raised THEN wxCache
                  ELSE [wxCache EXCEPT ![k] = Entry(res.val)]
           rec1 == [rec EXCEPT !.wxAns = wxAns, !.wxUsed = TRUE, !.weather = res.val]
       IN IF res.raised
          THEN Finish([rec1 EXCEPT !.out = "crash"], qp, qpOrigin, FALSE, ipC, geoC, wxC)
          ELSE IF res.val = PyNone
          THEN Finish([rec1 EXCEPT !.out = "weather_failed"], qp, qpOrigin, FALSE,
                      ipC, geoC, wxC)
          ELSE IF btn = "default"
          THEN Finish([rec1 EXCEPT !.out = "rerun"],
                      set_query_params(loc.coord,
                                       IF loc.source = NoLabel THEN "user" ELSE loc.source,
                                       Absent),
                      loc.origin, TRUE, ipC, geoC, wxC)
          ELSE Finish([rec1 EXCEPT !.out = "weather_shown",
                                   !.tempText = FStr(DictGet(res.val, "temp")),
                                   !.feelsText = FStr(DictGet(res.val, "feels_like"))],
                      qp, qpOrigin, FALSE, ipC, geoC, wxC)

\* Line 159-160: only the IP-based branch calls ip_geolocation().
NeedsIpAlways(m) == TRUE
NeedsIp(m) == m = "IP-based (fallback)"

\* Lines 143-231: resolution, reverse lookup, the "no coordinates" stop.
LocatePart(E, rec, m, u, btn, text) ==
  LET ipCall == NeedsIp(m)
      ipHit == Fresh(ipCache)
      city == Strip(text)
      geoCall == m = "Search city" /\ btn = "find" /\ city # ""
      geoHit == geoCall /\ Fresh(geoCache[city])
  IN \E ipAns \in (IF ipCall /\ ~ipHit THEN E.ip ELSE {NoAnswer}),
        geoAns \in (IF geoCall /\ ~geoHit THEN E.geo ELSE {NoAnswer}) :
       LET ip_data == IF ~ipCall THEN PyNone
                      ELSE IF ipHit THEN ipCache.val ELSE ip_geolocation(ipAns)
           ipC == IF ipCall /\ ~ipHit THEN Entry(ip_data) ELSE ipCache
           ge == IF ~geoCall THEN Ok(PyNone)
                 ELSE IF geoHit THEN Ok(geoCache[city].val) ELSE geocode_city(geoAns)
           geoC == IF geoCall /\ ~geoHit /\ ~ge.raised
                   THEN [geoCache EXCEPT ![city] = Entry(ge.val)] ELSE geoCache
           lat_lon == coords_from_query(qp)
           loc0 == CASE m = "Browser GPS (best)" -> gps_branch(lat_lon, qpOrigin)
                     [] m = "IP-based (fallback)" -> ip_branch(ip_data)
                     [] m = "Search city" -> city_branch(btn, text, ge, lat_lon, qpOrigin)
           loc == query_fallback(loc0, qp, qpOrigin)
           rec1 == [rec EXCEPT !.ipAns = ipAns, !.ipUsed = ipCall, !.ipData = ip_data,
                               !.geoAns = geoAns, !.geoUsed = geoCall, !.ge = ge.val,
                               !.coord = loc.coord, !.source = loc.source,
                               !.origin = loc.origin, !.name = loc.name,
                               !.note = loc.note]
       IN CASE loc.exit = "crash" ->
                 Finish([rec1 EXCEPT !.out = "crash"], qp, qpOrigin, FALSE, ipC, geoC, wxCache)
            [] loc.exit = "rerun" ->
                 Finish([rec1 EXCEPT !.out = "rerun"],
                        set_query_params(loc.coord, "city", loc.name), "city", TRUE,
                        ipC, geoC, wxCache)
            [] loc.exit = "go" /\ loc.coord = NoCoord ->
                 Finish([rec1 EXCEPT !.out = "no_coords"], qp, qpOrigin, FALSE,
                        ipC, geoC, wxCache)
            [] OTHER ->
                 \E revAns \in E.rev :
                   WeatherPart(E, [rec1 EXCEPT !.revUsed = TRUE,
                                               !.name = reverse_name(revAns, loc.name)],
                               loc, u, btn, ipC, geoC)

\* The whole script, lines 23-263, for one run with the sidebar showing
\* method m and units u, button btn pressed, text in the city box.
Script(E, m, u, btn, text) ==
  LET rec == [Blank EXCEPT !.btn = btn, !.qp0 = qp]
  IN IF KeyMissing(key)
     THEN Finish([rec EXCEPT !.out = "config_error"], qp, qpOrigin, FALSE,
                 ipCache, geoCache, wxCache)
     ELSE IF btn = "refresh"
     THEN Finish([rec EXCEPT !.out = "rerun"], clear_location_query, "none", TRUE,
                 ipCache, geoCache, wxCache)
     ELSE LocatePart(E, rec, m, u, btn, text)

\* ------------------------------------------------------------ what is shown
SidebarShown == r.out \notin {"none", "config_error"}
FindShown == method = "Search city" /\ r.out \in {"no_coords", "weather_failed", "weather_shown"}
GpsButtonShown == method = "Browser GPS (best)" /\ r.out = "no_coords"
DefaultShown == r.out = "weather_shown"

\* ---------------------------------------------------------------- actions
\* A pending run: first load, st.experimental_rerun(), redirect.
Rerun(E) ==
  /\ rerun
  /\ Script(E, method, units, "none", "")
  /\ UNCHANGED <<key, method, units>>

\* The user changes the radio or the selectbox (or reloads): a run, no button.
Interact(E, m, u) ==
  /\ ~rerun
  /\ IF SidebarShown THEN TRUE ELSE m = method /\ u = units
  /\ method' = m
  /\ units' = u
  /\ Script(E, m, u, "none", "")
  /\ UNCHANGED key

ClickRefresh(E) ==
  /\ ~rerun /\ SidebarShown
  /\ Script(E, method, units, "refresh", "")
  /\ UNCHANGED <<key, method, units>>

ClickFind(E, text) ==
  /\ ~rerun /\ FindShown
  /\ Script(E, method, units, "find", text)
  /\ UNCHANGED <<key, method, units>>

ClickDefault(E) ==
  /\ ~rerun /\ DefaultShown
  /\ Script(E, method, units, "default", "")
  /\ UNCHANGED <<key, method, units>>

\* The embedded button, lines 101-123: on success the page is replaced by
\* ?lat=..&lon=..&source=gps (a fresh session); on denial only a message.
GpsClick(ok, fix) ==
  /\ ~rerun /\ GpsButtonShown
  /\ IF ok
     THEN /\ qp' = [lat |-> JsStr(fix[1]), lon |-> JsStr(fix[2]), source |-> "gps",
                    city |-> Absent]
          /\ qpOrigin' = "gps"
          /\ method' = "Browser GPS (best)"
          /\ units' = "metric"
          /\ rerun' = TRUE
          /\ r' = [Blank EXCEPT !.out = "rerun", !.btn = "gps", !.qp0 = qp]
     ELSE /\ r' = [r EXCEPT !.gpsMsg = "Error obtaining location: User denied Geolocation"]
          /\ UNCHANGED <<qp, qpOrigin, method, units, rerun>>
  /\ UNCHANGED <<key, ipCache, geoCache, wxCache>>

\* TickStep seconds pass.
Tick ==
  /\ ~rerun
  /\ ipCache' = Aged(ipCache)
  /\ geoCache' = [c \in Cities |-> Aged(geoCache[c])]
  /\ wxCache' = [k \in WxKeys |-> Aged(wxCache[k])]
  /\ <<ipCache', geoCache', wxCache'>> # <<ipCache, geoCache, wxCache>>
  /\ UNCHANGED <<key, qp, qpOrigin, method, units, rerun, r>>

\* ------------------------------------------------------- specifications
\* An environment: what each provider may answer, and which sidebar values
\* the user picks.
Env(ip, geo, rev, wx, ms, us) ==
  [ip |-> ip, geo |-> geo, rev |-> rev, wx |-> wx, methods |-> ms, units |-> us]

\* Resolution in full, every IP and geocoding answer: the weather provider
\* either answers or times out, and the user leaves the units alone.
LocEnv == Env(IpAnswers, GeoAnswers, RevAnswers,
              {Timeout, Http(200, WxFull)}, Methods, {"metric"})

\* The weather client and the renderer in full, every weather answer and both
\* units: coordinates come from the URL, the GPS redirect or a plain IP lookup.
WxEnv == Env({Timeout, Http(200, IpFull)}, {Timeout}, RevAnswers,
             WxAnswers, {"Browser GPS (best)", "IP-based (fallback)"}, Units)

NextLoc ==
  \/ Rerun(LocEnv)
  \/ \E m \in LocEnv.methods, u \in LocEnv.units : Interact(LocEnv, m, u)
  \/ ClickRefresh(LocEnv)
  \/ \E text \in CityTexts : ClickFind(LocEnv, text)
  \/ ClickDefault(LocEnv)
  \/ \E ok \in BOOLEAN, fix \in GpsFixes : GpsClick(ok, fix)
  \/ Tick

NextWx ==
  \/ Rerun(WxEnv)
  \/ \E m \in WxEnv.methods, u \in WxEnv.units : Interact(WxEnv, m, u)
  \/ ClickRefresh(WxEnv)
  \/ ClickDefault(WxEnv)
  \/ \E ok \in BOOLEAN, fix \in GpsFixes : GpsClick(ok, fix)
  \/ Tick

SpecLoc == Init /\ [][NextLoc]_vars
SpecWx == Init /\ [][NextWx]_vars

\* ------------------------------------------------------------------ claims
Stored(q) == coords_from_query(q)
Completed == r.out \in {"no_coords", "weather_failed", "weather_shown", "crash"}
WxFailures == {Timeout, Http(401, NotJson), Http(200, NotJson)}

\* C1: with the API key absent or empty a run shows the configuration error
\* and stops; no weather request, IP lookup or geocoding call is made, and
\* nothing is ever memoized.
C1_NoRequestWithoutKey ==
  key \in {Absent, ""} =>
    /\ r.out \in {"none", "config_error"}
    /\ ~r.wxUsed /\ r.wxAns = NoAnswer
    /\ ~r.ipUsed /\ ~r.geoUsed /\ ~r.revUsed
    /\ \A k \in WxKeys : wxCache[k] = NoEntry

C1_Witness == key = "" /\ r.out = "config_error" /\ Stored(qp) # NoCoord

C4_ZeroMatchesFallsThrough ==
  r.geoAns = Http(200, NoMatches) =>
    /\ r.ge = PyNone /\ r.out # "crash"
    /\ r.note = "City not found via OpenWeather geocoding."
    /\ IF Stored(r.qp0) # NoCoord
       THEN r.coord = Stored(r.qp0) /\ r.source = "Query param" /\ r.wxUsed
       ELSE r.out = "no_coords"

C4_Witness ==
  r.geoAns = Http(200, NoMatches) /\ r.source = "Query param" /\ r.out = "weather_shown"

\* A second run of the script with nothing pressed and the same method, after
\* a run with nothing pressed that resolved a coordinate from the same query
\* parameters.
SecondRun(E) ==
  /\ r.btn = "none" /\ r.out \in {"weather_failed", "weather_shown"}
  /\ r.qp0 = qp /\ Stored(qp) # NoCoord
  /\ \E u \in E.units : Interact(E, method, u)

\* C5, as claimed: the second run returns the same latitude, longitude and
\* source tag and makes no geolocation or geocoding call.
C5_Idempotent ==
  [][SecondRun(LocEnv) =>
       /\ r'.coord = r.coord /\ r'.source = r.source
       /\ r'.ipAns = NoAnswer /\ r'.geoAns = NoAnswer /\ ~r'.revUsed]_vars

\* C5, amended: under the GPS and Search-city methods the second run returns
\* the same latitude, longitude and source tag (the stored pair), and makes no
\* IP lookup and no city geocoding call; it does repeat the reverse geocoding
\* request.
C5_IdempotentGpsCity ==
  [][(SecondRun(LocEnv) /\ method # "IP-based (fallback)") =>
       /\ r'.coord = r.coord /\ r'.source = r.source /\ r'.coord = Stored(qp)
       /\ ~r'.ipUsed /\ r'.ipAns = NoAnswer
       /\ ~r'.geoUsed /\ r'.geoAns = NoAnswer
       /\ r'.revUsed]_vars

C5_Witness ==
  /\ r.btn = "none" /\ r.out = "weather_shown" /\ r.qp0 = qp /\ Stored(qp) # NoCoord
  /\ method = "Search city" /\ r.source = "From query"
  /\ r.wxUsed /\ r.wxAns = NoAnswer /\ r.revUsed

\* C6: when the payload's current block has no feels_like, the line shown
\* carries a "not available" marker for it, never the text of a null.
C6_FeelsLikeMarker ==
  (r.out = "weather_shown" /\ ~HasKey(r.weather, "feels_like")) =>
    (r.tempText = "20" /\ r.feelsText # "None")

\* C7, as claimed: whatever the method, coordinates held in the query
\* parameters when a run starts are the ones handed to fetch_weather.
C7_StoredFirst ==
  (r.wxUsed /\ Stored(r.qp0) # NoCoord) => r.coord = Stored(r.qp0)

\* C7, amended: a run that starts with parseable coordinates in the query
\* parameters and gets as far as resolving hands fetch_weather those
\* coordinates under the GPS and Search-city methods; under the IP-based
\* method the IP lookup's coordinates come first (the run raising when they
\* are not numbers) and the stored pair is used only when the lookup yields
\* none.
C7_StoredUnlessIp ==
  (Completed /\ Stored(r.qp0) # NoCoord) =>
    IF method = "IP-based (fallback)" /\ r.ipData \in {IpFull, IpAlias, IpNull, IpText}
    THEN r.out = "crash" \/ (r.wxUsed /\ r.coord = <<2, 12>> /\ r.source = "IP-based")
    ELSE /\ r.wxUsed
         /\ r.coord = <<PyFloat(JStr(r.qp0.lat)).val, PyFloat(JStr(r.qp0.lon)).val>>

C7_Witness ==
  /\ method = "IP-based (fallback)" /\ r.ipData = PyNone /\ r.ipUsed
  /\ r.coord = <<1, 11>> /\ r.source = "Query param" /\ r.wxUsed

\* C8: whatever ipapi.co answers, the IP-based strategy never raises out of
\* the run.
C8_IpBestEffort == r.ipUsed => r.out # "crash"

\* C9: a memoized answer of fetch_weather is never a failure: after a failed
\* fetch the next run with the same (lat, lon, units) asks the provider again.
C9_FailureNotReplayed ==
  (r.wxUsed /\ r.wxAns = NoAnswer) => r.weather # PyNone

\* C10: the label shown names the strategy that produced the coordinates.
C10_TruthfulLabel ==
  (r.out = "weather_shown") =>
    /\ r.source = "GPS (browser)" => r.origin \in {"gps", "url"}
    /\ r.source = "IP-based" => r.origin = "ip"
====
